---- MODULE Spec2Model ----
(***************************************************************************)
(* A model of apps/docs/scripts/lint-external-links.ts: main scans the     *)
(* markdown files, merges the extracted links into one record per URL,     *)
(* checks every unique URL through a pool of cooperating workers           *)
(* (runWithConcurrency), each check being a HEAD request with a GET        *)
(* fallback under a per-request timer (checkUrl, fetchWithTimeout), and    *)
(* finally sorts and reports the failures and exits.                       *)
(*                                                                         *)
(* JavaScript runs one task at a time: every action below is the code that *)
(* runs between two suspension points (await) of one async function.       *)
(***************************************************************************)
EXTENDS Integers, Sequences, FiniteSets, TLC

\* ------------------------------------------------------------ constants

\* const MAX_CONCURRENCY = 15
MAX_CONCURRENCY == 15

\* const ACCEPTED_STATUSES = new Set([403, 429])
ACCEPTED_STATUSES == {403, 429}

\* ------------------------------------------------------------ bounds

\* The number of distinct URLs a corpus of the model holds at most.
MaxUrls == 3

\* The number of links the files of a scanned corpus hold at most, and the
\* number of its files.
MaxLinks == 3

MaxFiles == 2

\* The number of parts (a code fence, a newline, a link) a file of the runs
\* that look at code blocks is made of at most.
MaxText == 7

\* The number of distinct URLs in the runs that are followed to their end.
MaxLiveUrls == 2

\* A concurrency limit small enough to bind on the lists of the model.
SmallLimit == 2

\* URLs are numbered; the order of the numbers is the order localeCompare
\* gives the URL strings.
Urls == 1..MaxUrls

\* The values of runWithConcurrency's parameter `limit` that are explored:
\* main passes MAX_CONCURRENCY; SmallLimit makes the limit bind.
Limits == {SmallLimit, MAX_CONCURRENCY}

\* The limits of the runs that are followed to their end: one that binds
\* on their lists, and the one main passes.
LiveLimits == {MaxLiveUrls - 1, MAX_CONCURRENCY}

\* ------------------------------------------------------------ the network

\* What a request settles with: a response with a status, or a thrown value.
Response(s) == [kind |-> "response", status |-> s, isError |-> FALSE,
                name |-> "", message |-> ""]

\* A thrown Error object with its name and message.
ThrownError(n, m) == [kind |-> "throw", status |-> 0, isError |-> TRUE,
                      name |-> n, message |-> m]

\* A thrown value that is not an Error object.
ThrownValue == [kind |-> "throw", status |-> 0, isError |-> FALSE,
                name |-> "", message |-> ""]

\* What fetch rejects with when its signal is aborted.
AbortError == ThrownError("AbortError", "This operation was aborted")

\* A transport failure (DNS, connection refused, TLS, ...).
TransportError == ThrownError("TypeError", "fetch failed")

NoOutcome == [kind |-> "none", status |-> 0, isError |-> FALSE,
              name |-> "", message |-> ""]

\* The statuses the servers answer with in the runs of the pool.
PoolStatuses == {200, 404}

\* The status every server answers with in the runs that look at the scan.
ScanStatuses == {200}

\* The statuses the servers answer with in the runs of a single check.
AllStatuses == 100..599

\* The values fetch throws by itself (an abort is thrown by the timer).
Thrown == {TransportError, ThrownValue}

\* ------------------------------------------------------------ the corpus

Min(a, b) == IF a < b THEN a ELSE b

\* The links collectFileLinks returns for a file that holds URLs us, one
\* link per line.
FileOf(us) == [i \in 1..Len(us) |-> [url |-> us[i], line |-> i]]

Descending(n) == [i \in 1..n |-> n + 1 - i]

\* The corpus with n distinct URLs: a first file that links them in
\* descending order, so that the order of first encounter is not the sorted
\* one, and a second file that links the first of them again.
Corpus(n) ==
  <<FileOf(Descending(n)), FileOf(SubSeq(Descending(n), 1, Min(1, n)))>>

\* The corpora of the model.
Corpora == { Corpus(n) : n \in 0..MaxUrls }

\* The corpora of the runs that are followed to their end.
LiveCorpora == { Corpus(n) : n \in 0..MaxLiveUrls }

\* The corpus of the runs of a single check: one file with one link.
SingleLinkCorpus == <<FileOf(<<1>>)>>

\* The ways to cut a run of n links into MaxFiles files, each as the number
\* of links before the end of each file.
Cuts(n) ==
  { c \in [0..MaxFiles -> 0..n] :
      /\ c[0] = 0
      /\ c[MaxFiles] = n
      /\ \A f \in 1..MaxFiles : c[f - 1] <= c[f] }

\* The files that hold the links to us in this order, cut at c; the links
\* of a file stand two to a line.
CutCorpus(us, c) ==
  [f \in 1..MaxFiles |->
     [k \in 1..(c[f] - c[f - 1]) |->
        [url |-> us[c[f - 1] + k], line |-> (k + 1) \div 2]]]

\* The runs of at most MaxLinks links to the URLs of the model.
LinkRuns == UNION { [1..n -> Urls] : n \in 0..MaxLinks }

\* The corpora of the runs that look at the scan: every run of at most
\* MaxLinks links to the URLs of the model, repeated or not, cut into
\* files in every way.
ScanCorpora ==
  UNION { { CutCorpus(us, c) : c \in Cuts(Len(us)) } : us \in LinkRuns }

\* ------------------------------------------------------------ the text

\* A text is a sequence of tokens. A token is one character that means
\* something to the patterns of lines 27-31, to extractMarkdownUrl or to
\* the URL parser, or a run of characters none of which does.

Whitespace == {" ", "\n"}

\* The backtick character.
Backtick == "tick"

\* The first place at or after from where t holds a token of set, or 0.
FirstAt(t, from, set) ==
  IF \E i \in from..Len(t) : t[i] \in set
  THEN CHOOSE i \in from..Len(t) :
         /\ t[i] \in set
         /\ \A j \in from..(i - 1) : t[j] \notin set
  ELSE 0

\* The number of newline characters of t.
RECURSIVE Newlines(_)
Newlines(t) ==
  IF t = <<>>
  THEN 0
  ELSE (IF Head(t) = "\n" THEN 1 ELSE 0) + Newlines(Tail(t))

\* "\n".repeat(n)
Repeat(n) == [i \in 1..n |-> "\n"]

\* Three backticks stand at i.
FenceAt(t, i) ==
  /\ i + 2 <= Len(t)
  /\ t[i] = Backtick
  /\ t[i + 1] = Backtick
  /\ t[i + 2] = Backtick

\* The first place at or after from where three backticks stand, or 0.
NextFence(t, from) ==
  IF \E i \in from..Len(t) : FenceAt(t, i)
  THEN CHOOSE i \in from..Len(t) :
         FenceAt(t, i) /\ \A j \in from..(i - 1) : ~FenceAt(t, j)
  ELSE 0

\* Replacement that drops the match, newlines included.
ReplacementWithoutNewlines(match) == <<>>

\* Lines 72-74: what replace puts in the place of a match.
Replacement(match) == Repeat(Newlines(match))

\* content.replace(CODE_BLOCK_REGEX, ...) past from: the pattern of
\* line 27 matches from three backticks to the nearest three backticks
\* that follow them (lazy), and the search goes on after the match.
RECURSIVE ReplaceCodeBlocks(_, _)
ReplaceCodeBlocks(t, from) ==
  LET open == NextFence(t, from)
      close == IF open = 0 THEN 0 ELSE NextFence(t, open + 3)
  IN IF close = 0
     THEN SubSeq(t, from, Len(t))
     ELSE SubSeq(t, from, open - 1)
            \o Replacement(SubSeq(t, open, close + 2))
            \o ReplaceCodeBlocks(t, close + 3)

\* Lines 71-75.
stripCodeBlocks(content) == ReplaceCodeBlocks(content, 1)

\* Lines 77-79; index counts from 0.
lineNumberAt(content, index) == Newlines(SubSeq(content, 1, index)) + 1

\* ------------------------------------------------------------ the patterns

\* The tokens whose first character is a word character (\w), and those
\* whose last character is one: what \b looks at.
BeginsWord ==
  {"a", "A", "t", "href=", "HREF=", "https:", "http:", "HTTPS:", "ftp:",
   "mailto:", "x.com", "img.com", "localhost", "LOCALHOST", "me@x.com",
   "f=a.png", "h.png"}

EndsWord ==
  {"a", "A", "t", "x.com", "img.com", "localhost", "LOCALHOST", "me@x.com",
   ":3000", "/page", "/outer", ".png", ".PNG", ".html", "f=a.png", "h.png"}

NoMatch == [ok |-> FALSE, end |-> 0, capture |-> <<>>]

\* A match that ends at `end`, with the group the loop reads.
Match(end, capture) == [ok |-> TRUE, end |-> end, capture |-> capture]

\* MARKDOWN_LINK_REGEX, line 29, tried at i: no "!" before, "[", the
\* characters up to the first "]", "(", one character at least up to the
\* first ")" with no newline before it. The group is match[1].
LinkAt(t, i) ==
  IF t[i] = "[" /\ (i = 1 \/ t[i - 1] # "!")
  THEN LET j == FirstAt(t, i + 1, {"]"})
       IN IF j = 0 \/ j + 1 > Len(t) \/ t[j + 1] # "("
          THEN NoMatch
          ELSE LET k == FirstAt(t, j + 2, {")", "\n"})
               IN IF k = 0 \/ t[k] # ")" \/ k = j + 2
                  THEN NoMatch
                  ELSE Match(k, SubSeq(t, j + 2, k - 1))
  ELSE NoMatch

\* AUTOLINK_REGEX, line 30, tried at i: "<", "http://" or "https://", one
\* character at least up to the first ">" with no whitespace before it.
\* The group is match[1].
AutolinkAt(t, i) ==
  IF /\ t[i] = "<"
     /\ i + 2 <= Len(t)
     /\ t[i + 1] \in {"http:", "https:"}
     /\ t[i + 2] = "//"
  THEN LET k == FirstAt(t, i + 3, {">"} \cup Whitespace)
       IN IF k = 0 \/ t[k] # ">" \/ k = i + 3
          THEN NoMatch
          ELSE Match(k, SubSeq(t, i + 1, k - 1))
  ELSE NoMatch

\* The places of an href= that HTML_ANCHOR_REGEX can use for a tag opened
\* at i: within the run of characters other than ">", after a word
\* boundary, followed by a quote that is closed on the same line.
HrefPlaces(t, i) ==
  LET gt == FirstAt(t, i + 2, {">"})
      last == IF gt = 0 THEN Len(t) ELSE gt - 1
  IN { h \in (i + 2)..last :
         /\ t[h] \in {"href=", "HREF="}
         /\ t[h - 1] \notin EndsWord
         /\ h + 1 <= Len(t)
         /\ t[h + 1] \in {"\"", "'"}
         /\ FirstAt(t, h + 2, {t[h + 1], "\n"}) # 0
         /\ t[FirstAt(t, h + 2, {t[h + 1], "\n"})] = t[h + 1] }

\* HTML_ANCHOR_REGEX, line 31, tried at i, case-insensitive: "<a", a word
\* boundary, the longest run of characters other than ">" that leaves an
\* href= to use (greedy), the quote, the characters up to the nearest
\* same quote (lazy). The group is match[2].
AnchorAt(t, i) ==
  IF /\ t[i] = "<"
     /\ i + 1 <= Len(t)
     /\ t[i + 1] \in {"a", "A"}
     /\ (i + 2 > Len(t) \/ t[i + 2] \notin BeginsWord)
     /\ HrefPlaces(t, i) # {}
  THEN LET h == CHOOSE x \in HrefPlaces(t, i) :
                  \A y \in HrefPlaces(t, i) : y <= x
           close == FirstAt(t, h + 2, {t[h + 1]})
       IN Match(close, SubSeq(t, h + 2, close - 1))
  ELSE NoMatch

MatchAt(pattern, t, i) ==
  CASE pattern = "link" -> LinkAt(t, i)
    [] pattern = "autolink" -> AutolinkAt(t, i)
    [] pattern = "anchor" -> AnchorAt(t, i)

\* The loop `while ((match = REGEX.exec(content)) !== null)` of a global
\* pattern whose lastIndex is `from` - 1: the leftmost match, then the
\* matches after its end. index is match.index, counted from 0.
RECURSIVE Matches(_, _, _)
Matches(pattern, t, from) ==
  LET places == { i \in from..Len(t) : MatchAt(pattern, t, i).ok }
  IN IF places = {}
     THEN <<>>
     ELSE LET i == CHOOSE x \in places : \A y \in places : x <= y
              m == MatchAt(pattern, t, i)
          IN <<[index |-> i - 1, capture |-> m.capture]>>
               \o Matches(pattern, t, m.end + 1)

\* raw.trim()
Trim(raw) ==
  LET kept == { i \in 1..Len(raw) : raw[i] \notin Whitespace }
  IN IF kept = {}
     THEN <<>>
     ELSE SubSeq(raw,
                 CHOOSE x \in kept : \A y \in kept : x <= y,
                 CHOOSE x \in kept : \A y \in kept : y <= x)

\* Lines 81-91.
extractMarkdownUrl(raw) ==
  LET trimmed == Trim(raw)
  IN IF trimmed = <<>>
     THEN <<>>
     ELSE IF Head(trimmed) = "<" /\ FirstAt(trimmed, 1, {">"}) # 0
     THEN Trim(SubSeq(trimmed, 2, FirstAt(trimmed, 1, {">"}) - 1))
     ELSE IF FirstAt(trimmed, 1, Whitespace) = 0
     THEN trimmed
     ELSE SubSeq(trimmed, 1, FirstAt(trimmed, 1, Whitespace) - 1)

\* ------------------------------------------------------------ URLs

\* const IMAGE_EXTENSIONS, lines 15-25.
IMAGE_EXTENSIONS ==
  {".png", ".jpg", ".jpeg", ".gif", ".webp", ".svg", ".avif", ".bmp", ".ico"}

\* The tokens a URL of the model is written with: schemes that are followed
\* by "//" and a host, hosts, ports, path segments, extensions, and what
\* stands after "?", "#" and "mailto:".
SchemeTokens == {"https:", "http:", "HTTPS:", "ftp:"}

HostTokens == {"x.com", "img.com", "localhost", "LOCALHOST"}

PortTokens == {":3000"}

\* A segment with a name, and the bare slash.
NamedSegments == {"/page", "/outer"}

ExtTokens == {".png", ".PNG", ".html"}

PathTokens == NamedSegments \cup ExtTokens \cup {"/"}

OpaqueTokens == {"f=a.png", "h.png", "me@x.com"}

\* toLowerCase(), and the lower case the URL parser gives scheme and host.
Lower(token) ==
  CASE token = "HTTPS:" -> "https:"
    [] token = "LOCALHOST" -> "localhost"
    [] token = ".PNG" -> ".png"
    [] OTHER -> token

NotAUrl ==
  [ok |-> FALSE, protocol |-> "", hostname |-> "", port |-> <<>>,
   pathname |-> <<>>, search |-> <<>>, hash |-> <<>>]

\* new URL(s): the parts of s; "//" and a host must follow the scheme of a
\* special URL, the path of a URL with a host is never empty, scheme and
\* host come out in lower case. A string without a scheme does not parse
\* (no base is given).
ParseUrl(s) ==
  IF Len(s) >= 3 /\ s[1] \in SchemeTokens /\ s[2] = "//" /\ s[3] \in HostTokens
  THEN LET start == IF Len(s) >= 4 /\ s[4] \in PortTokens THEN 5 ELSE 4
           cut == FirstAt(s, start, {"?", "#"})
           sharp == FirstAt(s, start, {"#"})
           pathEnd == IF cut = 0 THEN Len(s) ELSE cut - 1
           searchEnd == IF sharp = 0 THEN Len(s) ELSE sharp - 1
       IN IF /\ \A i \in start..pathEnd : s[i] \in PathTokens
             /\ \A i \in (pathEnd + 1)..Len(s) :
                  s[i] \in OpaqueTokens \cup {"?", "#"}
          THEN [ok |-> TRUE,
                protocol |-> Lower(s[1]),
                hostname |-> Lower(s[3]),
                port |-> SubSeq(s, 4, start - 1),
                pathname |-> IF pathEnd < start
                             THEN <<"/">>
                             ELSE SubSeq(s, start, pathEnd),
                search |-> IF cut = 0 \/ s[cut] = "#"
                           THEN <<>>
                           ELSE SubSeq(s, cut, searchEnd),
                hash |-> IF sharp = 0 THEN <<>> ELSE SubSeq(s, sharp, Len(s))]
          ELSE NotAUrl
  ELSE IF Len(s) = 2 /\ s[1] = "mailto:" /\ s[2] \in OpaqueTokens
  THEN [ok |-> TRUE, protocol |-> "mailto:", hostname |-> "", port |-> <<>>,
        pathname |-> <<s[2]>>, search |-> <<>>, hash |-> <<>>]
  ELSE NotAUrl

\* parsed.toString() of a URL with a host.
Serialize(parsed) ==
  <<parsed.protocol, "//", parsed.hostname>> \o parsed.port
    \o parsed.pathname \o parsed.search \o parsed.hash

\* path.extname(p): the extension of the last segment; a segment that
\* begins with its only dot has none.
ExtName(p) ==
  IF Len(p) >= 2 /\ p[Len(p)] \in ExtTokens /\ p[Len(p) - 1] \in NamedSegments
  THEN p[Len(p)]
  ELSE ""

\* Lines 93-95.
stripQueryAndHash(url) ==
  IF FirstAt(url, 1, {"?", "#"}) = 0
  THEN url
  ELSE SubSeq(url, 1, FirstAt(url, 1, {"?", "#"}) - 1)

\* Lines 97-105.
isImageUrl(url) ==
  LET noQuery == stripQueryAndHash(url)
      parsed == ParseUrl(noQuery)
  IN IF parsed.ok
     THEN Lower(ExtName(parsed.pathname)) \in IMAGE_EXTENSIONS
     ELSE Lower(ExtName(noQuery)) \in IMAGE_EXTENSIONS

\* toExternalHttpUrl returns null.
Null == <<>>

\* toExternalHttpUrl that lets localhost through.
toExternalHttpUrlWithLocalhost(raw) ==
  LET trimmed == Trim(raw)
      parsed == ParseUrl(trimmed)
  IN IF trimmed = <<>> \/ ~parsed.ok
     THEN Null
     ELSE IF parsed.protocol # "http:" /\ parsed.protocol # "https:"
     THEN Null
     ELSE Serialize(parsed)

\* Lines 107-119.
toExternalHttpUrl(raw) ==
  LET trimmed == Trim(raw)
      parsed == ParseUrl(trimmed)
  IN IF trimmed = <<>> \/ ~parsed.ok
     THEN Null
     ELSE IF parsed.protocol # "http:" /\ parsed.protocol # "https:"
     THEN Null
     ELSE IF parsed.hostname = "localhost"
     THEN Null
     ELSE Serialize(parsed)

\* The body of the three loops of lines 133-163 for the matches ms of a
\* pattern: only the markdown link's group goes through
\* extractMarkdownUrl.
RECURSIVE LinksOf(_, _, _)
LinksOf(pattern, t, ms) ==
  IF ms = <<>>
  THEN <<>>
  ELSE LET match == Head(ms)
           extracted == IF pattern = "link"
                        THEN extractMarkdownUrl(match.capture)
                        ELSE match.capture
           external == toExternalHttpUrl(extracted)
       IN IF extracted = <<>> \/ external = Null
          THEN LinksOf(pattern, t, Tail(ms))
          ELSE IF isImageUrl(external)
          THEN LinksOf(pattern, t, Tail(ms))
          ELSE <<[url |-> external, line |-> lineNumberAt(t, match.index)]>>
                 \o LinksOf(pattern, t, Tail(ms))

\* ------------------------------------------------------------ the files

\* The URLs a link of the runs of collectFileLinks is written with, by
\* their parts: with a scheme, "//" and a host, with a scheme and "//" and
\* no host nor path (which does not parse), a mail address, or relative (a
\* path, a query string, a fragment, or nothing).
Targets ==
  [scheme : SchemeTokens,
   host : {<<"x.com">>, <<"localhost">>, <<"LOCALHOST">>,
           <<"localhost", ":3000">>},
   path : {<<>>, <<"/page">>, <<"/page", ".html">>, <<"/page", ".png">>,
           <<"/page", ".PNG">>, <<"/", ".png">>},
   query : {<<>>, <<"?", "f=a.png">>},
   hash : {<<>>, <<"#", "h.png">>}]
  \cup
  [scheme : SchemeTokens, host : {<<>>}, path : {<<>>},
   query : {<<>>, <<"?", "f=a.png">>},
   hash : {<<>>, <<"#", "h.png">>}]
  \cup
  [scheme : {"mailto:"}, host : {<<"me@x.com">>}, path : {<<>>},
   query : {<<>>}, hash : {<<>>}]
  \cup
  [scheme : {""}, host : {<<>>},
   path : {<<>>, <<"/page">>, <<"/page", ".png">>},
   query : {<<>>, <<"?", "f=a.png">>},
   hash : {<<>>, <<"#", "h.png">>}]

\* The text of a URL.
UrlText(u) ==
  IF u.scheme = ""
  THEN u.path \o u.query \o u.hash
  ELSE IF u.scheme = "mailto:"
  THEN <<u.scheme>> \o u.host
  ELSE <<u.scheme, "//">> \o u.host \o u.path \o u.query \o u.hash

\* The URL of the link around an image.
OuterUrl == <<"https:", "//", "x.com", "/outer">>

\* The ways a file writes its link: the three of lines 29-31 with their
\* variants (a title, angle brackets, single quotes and capitals), and the
\* image, alone, with its target in angle brackets and as the text of a
\* link to OuterUrl.
Syntaxes ==
  {"link", "linkTitle", "linkAngle", "autolink", "anchor", "anchorCapitals",
   "image", "imageAngle", "imageInLink"}

\* The text of a file that writes URL u in syntax s.
Render(s, u) ==
  CASE s = "link" -> <<"[", "a", "]", "(">> \o UrlText(u) \o <<")">>
    [] s = "linkTitle" ->
         <<"[", "a", "]", "(">> \o UrlText(u) \o <<" ", "\"", "t", "\"", ")">>
    [] s = "linkAngle" ->
         <<"[", "a", "]", "(", "<">> \o UrlText(u) \o <<">", ")">>
    [] s = "autolink" -> <<"<">> \o UrlText(u) \o <<">">>
    [] s = "anchor" ->
         <<"<", "a", " ", "href=", "\"">> \o UrlText(u) \o <<"\"", ">">>
    [] s = "anchorCapitals" ->
         <<"<", "A", " ", "HREF=", "'">> \o UrlText(u) \o <<"'", ">">>
    [] s = "image" -> <<"!", "[", "a", "]", "(">> \o UrlText(u) \o <<")">>
    [] s = "imageAngle" ->
         <<"!", "[", "a", "]", "(", "<">> \o UrlText(u) \o <<">", ")">>
    [] s = "imageInLink" ->
         <<"[", "!", "[", "a", "]", "(">> \o UrlText(u)
           \o <<")", "]", "(">> \o OuterUrl \o <<")">>

\* A markdown link to a page, on one line.
PlainLink == <<"[", "a", "]", "(", "https:", "//", "x.com", "/page", ")">>

\* What the files of the runs that look at code blocks are made of.
StripParts == {<<Backtick, Backtick, Backtick>>, <<"\n">>, PlainLink}

RECURSIVE Flatten(_)
Flatten(ps) == IF ps = <<>> THEN <<>> ELSE Head(ps) \o Flatten(Tail(ps))

\* The files of at most MaxText parts.
StripTexts ==
  { Flatten(ps) : ps \in UNION { [1..n -> StripParts] : n \in 0..MaxText } }

\* ------------------------------------------------------------ state

VARIABLES
  files,            \* the files findMarkdownFiles lists, each as the links
                    \* collectFileLinks returns for it
  dirExists,        \* fs.existsSync(CONTENT_DIR)
  pendingFiles,     \* the files main's for-of loop has not scanned yet,
                    \* each as the links collectFileLinks returns for it
  limit,            \* runWithConcurrency's parameter limit
  mainPc,           \* where main is: "start", "scan", "pool", "exited",
                    \* "crashed"
  scannedFiles,     \* files.length, counted as the loop goes
  extractedLinks,   \* main's extractedLinks
  occurrencesByUrl, \* the Map, as its entries in insertion order
  uniqueUrls,       \* main's uniqueUrls
  failed,           \* main's failed
  index,            \* runWithConcurrency's shared cursor
  workers,          \* the async functions Array.from created
  handed,           \* history: the indices handed to the worker callback
  requests,         \* history: the methods requested of each URL, in order
  verdict,          \* history: what checkUrl returned for each URL
  exitCode,         \* the code process.exit was called with, or -1
  summary,          \* the counters printed to standard output
  report,           \* the failures printed to standard error
  pushed,           \* history: the URLs pushed to `failed`, in push order
  timers,           \* history: per URL, the setTimeout calls so far and the
                    \* timers that are armed now
  syntax,           \* the runs of collectFileLinks alone: how the file's
                    \* link is written
  target,           \* ... and the URL it is written with
  rawContent,       \* collectFileLinks' rawContent
  content,          \* collectFileLinks' content
  fileLinks,        \* collectFileLinks' links
  textPc            \* where collectFileLinks is: "none", "read",
                    \* "stripped", "links", "autolinks", "done"

vars == <<files, dirExists, pendingFiles, limit, mainPc, scannedFiles,
          extractedLinks, occurrencesByUrl, uniqueUrls, failed, index,
          workers, handed, requests, verdict, exitCode, summary, report,
          pushed, timers, syntax, target, rawContent, content, fileLinks,
          textPc>>

\* The variables of a call of collectFileLinks that is looked at alone.
text == <<syntax, target, rawContent, content, fileLinks, textPc>>

\* The variables of main and of the pool.
pool == <<files, dirExists, pendingFiles, limit, mainPc, scannedFiles,
          extractedLinks, occurrencesByUrl, uniqueUrls, failed, index,
          workers, handed, requests, verdict, exitCode, summary, report,
          pushed, timers>>

NoTimers == [set |-> 0, armed |-> 0]

\* Line 173: setTimeout arms one timer for the request to url.
SetTimeout(ts, url) ==
  [ts EXCEPT ![url].set = @ + 1, ![url].armed = @ + 1]

\* Line 182: clearTimeout disarms the timer of the request to url.
ClearTimeout(ts, url) == [ts EXCEPT ![url].armed = @ - 1]

\* The timer of the request to url fires: it is armed no more, and the
\* clearTimeout that follows finds nothing to disarm.
Fired(ts, url) == [ts EXCEPT ![url].armed = @ - 1]

NoResult == [ok |-> FALSE, reason |-> "<none>"]

\* { ok: true } carries no reason.
Undefined == "<undefined>"

NoSummary == [files |-> -1, extracted |-> -1, unique |-> -1, failed |-> -1]

\* A worker suspended in fetch for a fresh check of item: checkUrl has
\* called fetchWithTimeout with method HEAD, which armed its timer.
\* head and last are the outcomes of the HEAD request and of the latest
\* request (head is history: the code keeps only `response`).
StartCheck(item) ==
  [pc |-> "fetch", item |-> item, method |-> "HEAD", timer |-> "armed",
   head |-> NoOutcome, last |-> NoOutcome, result |-> NoResult]

InitCommon ==
  /\ mainPc = "start"
  /\ scannedFiles = 0
  /\ extractedLinks = 0
  /\ occurrencesByUrl = <<>>
  /\ uniqueUrls = <<>>
  /\ failed = <<>>
  /\ index = 0
  /\ workers = <<>>
  /\ handed = <<>>
  /\ requests = [u \in Urls |-> <<>>]
  /\ verdict = [u \in Urls |-> NoResult]
  /\ exitCode = -1
  /\ summary = NoSummary
  /\ report = <<>>
  /\ pushed = <<>>
  /\ timers = [u \in Urls |-> NoTimers]

\* No call of collectFileLinks is looked at alone: the files are given by
\* the links they hold.
NoTarget ==
  [scheme |-> "none", host |-> <<>>, path |-> <<>>, query |-> <<>>,
   hash |-> <<>>]

NoText ==
  /\ syntax = "none"
  /\ target = NoTarget
  /\ rawContent = <<>>
  /\ content = <<>>
  /\ fileLinks = <<>>
  /\ textPc = "none"

Init ==
  /\ files \in Corpora
  /\ dirExists \in BOOLEAN
  /\ pendingFiles = files
  /\ limit \in Limits
  /\ InitCommon
  /\ NoText

InitLive ==
  /\ files \in LiveCorpora
  /\ dirExists \in BOOLEAN
  /\ pendingFiles = files
  /\ limit \in LiveLimits
  /\ InitCommon
  /\ NoText

InitScan ==
  /\ files \in ScanCorpora
  /\ dirExists = TRUE
  /\ pendingFiles = files
  /\ limit = MAX_CONCURRENCY
  /\ InitCommon
  /\ NoText

InitCheck ==
  /\ files = SingleLinkCorpus
  /\ dirExists = TRUE
  /\ pendingFiles = files
  /\ limit = MAX_CONCURRENCY
  /\ InitCommon
  /\ NoText

\* ------------------------------------------------------------ main: scan

\* occurrencesByUrl.get(url) ?? []
MapGet(map, url) ==
  IF \E i \in 1..Len(map) : map[i].url = url
  THEN map[CHOOSE i \in 1..Len(map) : map[i].url = url].occurrences
  ELSE <<>>

\* MapSet as pushing onto an array of entries: a key that is present gets
\* a second entry.
MapSetAlwaysAppending(map, url, occurrences) ==
  Append(map, [url |-> url, occurrences |-> occurrences])

\* occurrencesByUrl.set(url, occurrences): a key that is present keeps its
\* place in the insertion order, a new key goes last.
MapSet(map, url, occurrences) ==
  IF \E i \in 1..Len(map) : map[i].url = url
  THEN [i \in 1..Len(map) |->
          IF map[i].url = url
          THEN [url |-> url, occurrences |-> occurrences]
          ELSE map[i]]
  ELSE Append(map, [url |-> url, occurrences |-> occurrences])

\* [...occurrencesByUrl.keys()]
MapKeys(map) == [i \in 1..Len(map) |-> map[i].url]

\* The body of `for (const link of links)`, lines 255-259.
AddLink(map, link, file) ==
  MapSet(map, link.url,
         Append(MapGet(map, link.url), [file |-> file, line |-> link.line]))

RECURSIVE MergeLinks(_, _, _)
MergeLinks(map, links, file) ==
  IF links = <<>>
  THEN map
  ELSE MergeLinks(AddLink(map, Head(links), file), Tail(links), file)

\* CheckDir that exits with 0 when the content directory is missing.
CheckDirExitingZero ==
  /\ mainPc = "start"
  /\ IF dirExists
     THEN /\ mainPc' = "scan"
          /\ exitCode' = exitCode
     ELSE /\ mainPc' = "exited"
          /\ exitCode' = 0
  /\ UNCHANGED <<text, files, timers, dirExists, pendingFiles, limit, scannedFiles,
                 extractedLinks, occurrencesByUrl, uniqueUrls, failed, index,
                 workers, handed, requests, verdict, summary, report,
                 pushed>>

\* main, lines 241-246: the content directory is missing, or the files
\* are listed.
CheckDir ==
  /\ mainPc = "start"
  /\ IF dirExists
     THEN /\ mainPc' = "scan"
          /\ exitCode' = exitCode
     ELSE /\ mainPc' = "exited"
          /\ exitCode' = 1
  /\ UNCHANGED <<text, files, timers, dirExists, pendingFiles, limit, scannedFiles,
                 extractedLinks, occurrencesByUrl, uniqueUrls, failed, index,
                 workers, handed, requests, verdict, summary, report,
                 pushed>>

\* main, lines 250-260: one turn of `for (const filePath of files)`. The
\* file's relative path is modelled by its place in the list.
ScanFile ==
  /\ mainPc = "scan"
  /\ pendingFiles # <<>>
  /\ LET links == Head(pendingFiles)
         relativeFile == scannedFiles + 1
     IN /\ extractedLinks' = extractedLinks + Len(links)
        /\ occurrencesByUrl' = MergeLinks(occurrencesByUrl, links, relativeFile)
        /\ scannedFiles' = scannedFiles + 1
  /\ pendingFiles' = Tail(pendingFiles)
  /\ UNCHANGED <<text, files, timers, dirExists, limit, mainPc, uniqueUrls, failed, index, workers,
                 handed, requests, verdict, exitCode, summary, report,
                 pushed>>

\* ------------------------------------------------------------ checkUrl

\* checkUrl's completion when it throws instead of returning.
Raised == [ok |-> FALSE, reason |-> "<raised>"]

\* NeedsGet with the comparison off by one.
NeedsGetAbove400(status) == status > 400 \/ status = 429

\* Line 195: the HEAD's response calls for the GET fallback.
NeedsGet(status) == status >= 400 \/ status = 429

\* Classify without the accepted statuses.
ClassifyWithoutAccepted(status) ==
  IF status = 404
  THEN [ok |-> FALSE, reason |-> "HTTP 404"]
  ELSE IF status < 200 \/ status >= 400
  THEN [ok |-> FALSE, reason |-> "HTTP " \o ToString(status)]
  ELSE [ok |-> TRUE, reason |-> Undefined]

\* Lines 199-211: the verdict on the final response.
Classify(status) ==
  IF status = 404
  THEN [ok |-> FALSE, reason |-> "HTTP 404"]
  ELSE IF status \in ACCEPTED_STATUSES
  THEN [ok |-> TRUE, reason |-> Undefined]
  ELSE IF status < 200 \/ status >= 400
  THEN [ok |-> FALSE, reason |-> "HTTP " \o ToString(status)]
  ELSE [ok |-> TRUE, reason |-> Undefined]

\* Catch that throws again what is not an Error.
CatchRethrowing(error) ==
  IF error.isError /\ error.name = "AbortError"
  THEN [ok |-> FALSE, reason |-> "timeout"]
  ELSE IF error.isError
  THEN [ok |-> FALSE, reason |-> error.message]
  ELSE Raised

\* Catch that does not tell an abort from another error.
CatchWithoutAbort(error) ==
  [ok |-> FALSE,
   reason |-> IF error.isError THEN error.message ELSE "unknown error"]

\* Lines 212-219: the verdict on a thrown value.
Catch(error) ==
  IF error.isError /\ error.name = "AbortError"
  THEN [ok |-> FALSE, reason |-> "timeout"]
  ELSE [ok |-> FALSE,
        reason |-> IF error.isError THEN error.message ELSE "unknown error"]

\* ------------------------------------------------------------ the pool

\* LoopStep without `index += 1`.
LoopStepWithoutAdvance(st, w, items) ==
  IF st.index < Len(items)
  THEN LET item == items[st.index + 1]
       IN [index |-> st.index,
           workers |-> [st.workers EXCEPT ![w] = StartCheck(item)],
           handed |-> Append(st.handed, st.index),
           requests |-> [st.requests EXCEPT ![item] = Append(@, "HEAD")],
           timers |-> SetTimeout(st.timers, item)]
  ELSE [st EXCEPT !.workers[w].pc = "done"]

\* Lines 230-234, from the loop's test to the suspension in fetch: worker w
\* claims the item under the cursor and starts its check, or finishes.
\* st holds the cursor, the workers and the histories.
LoopStep(st, w, items) ==
  IF st.index < Len(items)
  THEN LET item == items[st.index + 1]
       IN [index |-> st.index + 1,
           workers |-> [st.workers EXCEPT ![w] = StartCheck(item)],
           handed |-> Append(st.handed, st.index),
           requests |-> [st.requests EXCEPT ![item] = Append(@, "HEAD")],
           timers |-> SetTimeout(st.timers, item)]
  ELSE [st EXCEPT !.workers[w].pc = "done"]

\* Array.from({ length }, async () => ...): the workers are created one
\* after the other, and each runs until it first suspends.
RECURSIVE SpawnWorkers(_, _, _, _)
SpawnWorkers(st, w, length, items) ==
  IF w > length
  THEN st
  ELSE SpawnWorkers(LoopStep(st, w, items), w + 1, length, items)

\* PoolSize without the limit: one worker per item.
PoolSizeWithoutLimit(lim, items) == Len(items)

\* Line 229: the number of workers.
PoolSize(lim, items) == Min(lim, Len(items))

\* A worker that is not inside a check: created and not run yet ("new"),
\* back in its loop ("loop"), rejected ("rejected"). The locals of the
\* check it ran are gone.
Outside(pc) ==
  [pc |-> pc, item |-> 0, method |-> "none", timer |-> "none",
   head |-> NoOutcome, last |-> NoOutcome, result |-> NoResult]

\* StartPool that does not wait for the scan loop to end.
StartPoolWhileScanning ==
  /\ mainPc = "scan"
  /\ LET items == MapKeys(occurrencesByUrl)
         length == PoolSize(limit, items)
         st == SpawnWorkers([index |-> 0,
                             workers |-> [w \in 1..length |-> Outside("new")],
                             handed |-> handed,
                             requests |-> requests,
                             timers |-> timers],
                            1, length, items)
     IN /\ uniqueUrls' = items
        /\ failed' = <<>>
        /\ index' = st.index
        /\ workers' = st.workers
        /\ handed' = st.handed
        /\ requests' = st.requests
        /\ timers' = st.timers
  /\ mainPc' = "pool"
  /\ UNCHANGED <<text, files, dirExists, pendingFiles, limit, scannedFiles, extractedLinks,
                 occurrencesByUrl, verdict, exitCode, summary, report,
                 pushed>>

\* main, lines 262-265, and runWithConcurrency up to its await.
StartPool ==
  /\ mainPc = "scan"
  /\ pendingFiles = <<>>
  /\ LET items == MapKeys(occurrencesByUrl)
         length == PoolSize(limit, items)
         st == SpawnWorkers([index |-> 0,
                             workers |-> [w \in 1..length |-> Outside("new")],
                             handed |-> handed,
                             requests |-> requests,
                             timers |-> timers],
                            1, length, items)
     IN /\ uniqueUrls' = items
        /\ failed' = <<>>
        /\ index' = st.index
        /\ workers' = st.workers
        /\ handed' = st.handed
        /\ requests' = st.requests
        /\ timers' = st.timers
  /\ mainPc' = "pool"
  /\ UNCHANGED <<text, files, dirExists, pendingFiles, limit, scannedFiles, extractedLinks,
                 occurrencesByUrl, verdict, exitCode, summary, report,
                 pushed>>

Running(w) == mainPc = "pool" /\ w \in 1..Len(workers)

\* The microtask queue is empty: every async function is suspended on a
\* request or has finished. A timer callback or a network callback is a
\* task of the event loop, and a task starts only then: the continuations
\* the previous task made ready have all run to their next suspension.
QueueEmpty(ws) == \A v \in 1..Len(ws) : ws[v].pc \in {"fetch", "done"}

\* Line 176 resumes with a response, whose status is one of statuses, and
\* the finally clears the timer.
FetchResolves(w, statuses) ==
  /\ Running(w)
  /\ QueueEmpty(workers)
  /\ workers[w].pc = "fetch"
  /\ \E status \in statuses :
       workers' = [workers EXCEPT
         ![w].pc = "check",
         ![w].timer = "cleared",
         ![w].last = Response(status),
         ![w].head = IF workers[w].method = "HEAD"
                     THEN Response(status)
                     ELSE @]
  /\ timers' = ClearTimeout(timers, workers[w].item)
  /\ UNCHANGED <<text, files, dirExists, pendingFiles, limit, mainPc, scannedFiles,
                 extractedLinks, occurrencesByUrl, uniqueUrls, failed, index,
                 handed, requests, verdict, exitCode, summary, report,
                 pushed>>

\* FetchRejects with clearTimeout after the await instead of in a
\* finally: a request that throws leaves its timer armed.
FetchRejectsKeepingTimer(w, errors) ==
  /\ Running(w)
  /\ QueueEmpty(workers)
  /\ workers[w].pc = "fetch"
  /\ \E error \in errors :
       workers' = [workers EXCEPT
         ![w].pc = "check",
         ![w].last = error,
         ![w].head = IF workers[w].method = "HEAD" THEN error ELSE @]
  /\ timers' = timers
  /\ UNCHANGED <<text, files, dirExists, pendingFiles, limit, mainPc, scannedFiles,
                 extractedLinks, occurrencesByUrl, uniqueUrls, failed, index,
                 handed, requests, verdict, exitCode, summary, report,
                 pushed>>

\* Line 176 resumes with a value fetch threw, one of errors, and the
\* finally clears the timer.
FetchRejects(w, errors) ==
  /\ Running(w)
  /\ QueueEmpty(workers)
  /\ workers[w].pc = "fetch"
  /\ \E error \in errors :
       workers' = [workers EXCEPT
         ![w].pc = "check",
         ![w].timer = "cleared",
         ![w].last = error,
         ![w].head = IF workers[w].method = "HEAD" THEN error ELSE @]
  /\ timers' = ClearTimeout(timers, workers[w].item)
  /\ UNCHANGED <<text, files, dirExists, pendingFiles, limit, mainPc, scannedFiles,
                 extractedLinks, occurrencesByUrl, uniqueUrls, failed, index,
                 handed, requests, verdict, exitCode, summary, report,
                 pushed>>

\* TimerFires with one controller shared by all requests: the abort
\* reaches every pending request.
TimerFiresForAll(w) ==
  /\ Running(w)
  /\ QueueEmpty(workers)
  /\ workers[w].pc = "fetch"
  /\ workers[w].timer = "armed"
  /\ workers' = [v \in 1..Len(workers) |->
       IF workers[v].pc = "fetch"
       THEN [workers[v] EXCEPT
              !.pc = "check",
              !.timer = "fired",
              !.last = AbortError,
              !.head = IF workers[v].method = "HEAD" THEN AbortError ELSE @]
       ELSE workers[v]]
  /\ timers' = [u \in Urls |->
       IF \E v \in 1..Len(workers) :
            workers[v].pc = "fetch" /\ workers[v].item = u
       THEN [timers[u] EXCEPT !.armed = @ - 1]
       ELSE timers[u]]
  /\ UNCHANGED <<text, files, dirExists, pendingFiles, limit, mainPc, scannedFiles,
                 extractedLinks, occurrencesByUrl, uniqueUrls, failed, index,
                 handed, requests, verdict, exitCode, summary, report,
                 pushed>>

\* Line 173: the timer of w's pending request fires and aborts the
\* request's controller; fetch rejects with an AbortError.
TimerFires(w) ==
  /\ Running(w)
  /\ QueueEmpty(workers)
  /\ workers[w].pc = "fetch"
  /\ workers[w].timer = "armed"
  /\ workers' = [workers EXCEPT
       ![w].pc = "check",
       ![w].timer = "fired",
       ![w].last = AbortError,
       ![w].head = IF workers[w].method = "HEAD" THEN AbortError ELSE @]
  /\ timers' = Fired(timers, workers[w].item)
  /\ UNCHANGED <<text, files, dirExists, pendingFiles, limit, mainPc, scannedFiles,
                 extractedLinks, occurrencesByUrl, uniqueUrls, failed, index,
                 handed, requests, verdict, exitCode, summary, report,
                 pushed>>

\* IssuesGet that spares the accepted statuses the fallback.
IssuesGetUnlessAccepted(method, outcome) ==
  /\ outcome.kind = "response"
  /\ method = "HEAD"
  /\ NeedsGet(outcome.status)
  /\ outcome.status \notin ACCEPTED_STATUSES

\* Lines 190-197: the awaited request was the HEAD, it returned a response,
\* and the response calls for the GET fallback.
IssuesGet(method, outcome) ==
  /\ outcome.kind = "response"
  /\ method = "HEAD"
  /\ NeedsGet(outcome.status)

\* Lines 199-219: what checkUrl returns on the outcome of its last request.
Completion(outcome) ==
  IF outcome.kind = "throw"
  THEN Catch(outcome)
  ELSE Classify(outcome.status)

\* checkUrl resumes at line 190 or 196.
ResumeCheckUrl(w) ==
  /\ Running(w)
  /\ workers[w].pc = "check"
  /\ LET item == workers[w].item
         step == Completion(workers[w].last)
     IN IF IssuesGet(workers[w].method, workers[w].last)
        THEN /\ workers' = [workers EXCEPT ![w].pc = "fetch",
                                           ![w].method = "GET",
                                           ![w].timer = "armed",
                                           ![w].last = NoOutcome]
             /\ requests' = [requests EXCEPT ![item] = Append(@, "GET")]
             /\ verdict' = verdict
             /\ timers' = SetTimeout(timers, item)
        ELSE /\ workers' = [workers EXCEPT ![w].pc = "callback",
                                           ![w].result = step]
             /\ requests' = requests
             /\ verdict' = [verdict EXCEPT ![item] = step]
             /\ timers' = timers
  /\ UNCHANGED <<text, files, dirExists, pendingFiles, limit, mainPc, scannedFiles,
                 extractedLinks, occurrencesByUrl, uniqueUrls, failed, index,
                 handed, exitCode, summary, report,
                 pushed>>

\* The record the callback pushes, lines 269-273.
FailedResult(url, result, map) ==
  [url |-> url,
   reason |-> IF result.reason = Undefined
              THEN "invalid status code"
              ELSE result.reason,
   occurrences |-> MapGet(map, url)]

\* Record that assigns a new list instead of pushing.
RecordReplacing(list, url, result, map) ==
  IF result.ok THEN list ELSE <<FailedResult(url, result, map)>>

\* What the callback leaves in `failed`, lines 267-273.
Record(list, url, result, map) ==
  IF result.ok THEN list ELSE Append(list, FailedResult(url, result, map))

\* The callback resumes at line 266. Had checkUrl thrown, neither the
\* callback nor the worker's loop would catch it: the worker rejects.
ResumeCallback(w) ==
  /\ Running(w)
  /\ workers[w].pc = "callback"
  /\ IF workers[w].result = Raised
     THEN /\ workers' = [workers EXCEPT ![w] = Outside("rejected")]
          /\ failed' = failed
          /\ pushed' = pushed
     ELSE /\ workers' = [workers EXCEPT ![w] = Outside("loop")]
          /\ failed' = Record(failed, workers[w].item, workers[w].result,
                              occurrencesByUrl)
          /\ pushed' = IF workers[w].result.ok
                       THEN pushed
                       ELSE Append(pushed, workers[w].item)
  /\ UNCHANGED <<text, files, timers, dirExists, pendingFiles, limit, mainPc, scannedFiles,
                 extractedLinks, occurrencesByUrl, uniqueUrls, index,
                 handed, requests, verdict, exitCode, summary, report>>

\* The worker's loop resumes at line 233.
ResumeLoop(w) ==
  /\ Running(w)
  /\ workers[w].pc = "loop"
  /\ LET st == LoopStep([index |-> index, workers |-> workers,
                         handed |-> handed, requests |-> requests,
                         timers |-> timers],
                        w, uniqueUrls)
     IN /\ index' = st.index
        /\ workers' = st.workers
        /\ handed' = st.handed
        /\ requests' = st.requests
        /\ timers' = st.timers
  /\ UNCHANGED <<text, files, dirExists, pendingFiles, limit, mainPc, scannedFiles,
                 extractedLinks, occurrencesByUrl, uniqueUrls, failed,
                 verdict, exitCode, summary, report,
                 pushed>>

\* ------------------------------------------------------------ main: report

\* The place of rec in a list sorted with a.url.localeCompare(b.url).
RECURSIVE Insert(_, _)
Insert(rec, sorted) ==
  IF sorted = <<>>
  THEN <<rec>>
  ELSE IF rec.url < Head(sorted).url
  THEN <<rec>> \o sorted
  ELSE <<Head(sorted)>> \o Insert(rec, Tail(sorted))

\* SortByUrl without the sort: the list as the pushes left it.
SortByUrlKeepingPushOrder(list) == list

\* failed.sort((a, b) => a.url.localeCompare(b.url))
RECURSIVE SortByUrl(_)
SortByUrl(list) ==
  IF list = <<>>
  THEN <<>>
  ELSE Insert(list[Len(list)], SortByUrl(SubSeq(list, 1, Len(list) - 1)))

\* PoolSettled as Promise.race would have it: the first worker to finish
\* settles the pool.
PoolSettledByFirst(ws) ==
  \/ \E w \in 1..Len(ws) : ws[w].pc = "done"
  \/ \E w \in 1..Len(ws) : ws[w].pc = "rejected"

\* PoolSettled for a Promise.all that never settles on an empty array.
PoolSettledUnlessEmpty(ws) ==
  /\ Len(ws) > 0
  /\ \/ \A w \in 1..Len(ws) : ws[w].pc = "done"
     \/ \E w \in 1..Len(ws) : ws[w].pc = "rejected"

\* Promise.all(workers) is settled: every worker is done, or one rejected.
PoolSettled(ws) ==
  \/ \A w \in 1..Len(ws) : ws[w].pc = "done"
  \/ \E w \in 1..Len(ws) : ws[w].pc = "rejected"

\* main resumes at line 265 and runs to process.exit, lines 276-298. A
\* rejected pool makes main reject: the process dies of the unhandled
\* rejection.
PoolSettles ==
  /\ mainPc = "pool"
  /\ PoolSettled(workers)
  /\ IF \E w \in 1..Len(workers) : workers[w].pc = "rejected"
     THEN /\ mainPc' = "crashed"
          /\ exitCode' = 1
          /\ UNCHANGED <<failed, summary, report>>
     ELSE /\ mainPc' = "exited"
          /\ failed' = SortByUrl(failed)
          /\ summary' = [files |-> scannedFiles,
                         extracted |-> extractedLinks,
                         unique |-> Len(uniqueUrls),
                         failed |-> Len(failed)]
          /\ report' = SortByUrl(failed)
          /\ exitCode' = IF Len(failed) = 0 THEN 0 ELSE 1
  /\ UNCHANGED <<text, files, timers, dirExists, pendingFiles, limit, scannedFiles, extractedLinks,
                 occurrencesByUrl, uniqueUrls, index, workers, handed,
                 requests, verdict, pushed>>

\* ------------------------------------------------------------ collectFileLinks

\* One file holds one link, written in one of the syntaxes.
InitExtract ==
  /\ syntax \in Syntaxes
  /\ target \in Targets
  /\ rawContent = Render(syntax, target)
  /\ content = <<>>
  /\ fileLinks = <<>>
  /\ textPc = "read"
  /\ files = <<>>
  /\ dirExists = TRUE
  /\ pendingFiles = <<>>
  /\ limit = MAX_CONCURRENCY
  /\ InitCommon

\* One file made of code fences, newlines and links.
InitStrip ==
  /\ syntax = "none"
  /\ target = NoTarget
  /\ rawContent \in StripTexts
  /\ content = <<>>
  /\ fileLinks = <<>>
  /\ textPc = "read"
  /\ files = <<>>
  /\ dirExists = TRUE
  /\ pendingFiles = <<>>
  /\ limit = MAX_CONCURRENCY
  /\ InitCommon

\* Line 123.
StripCode ==
  /\ textPc = "read"
  /\ content' = stripCodeBlocks(rawContent)
  /\ textPc' = "stripped"
  /\ UNCHANGED <<pool, syntax, target, rawContent, fileLinks>>

\* One of the loops of lines 133-163, over the content without its code
\* blocks; lines 126-129 have set lastIndex to 0.
MatchLoop(pattern, pc, next) ==
  /\ textPc = pc
  /\ fileLinks' = fileLinks
                    \o LinksOf(pattern, content, Matches(pattern, content, 1))
  /\ textPc' = next
  /\ UNCHANGED <<pool, syntax, target, rawContent, content>>

\* Lines 133-143.
MatchMarkdownLinks == MatchLoop("link", "stripped", "links")

\* Lines 145-153.
MatchAutolinks == MatchLoop("autolink", "links", "autolinks")

\* Lines 155-163 and the return of line 165.
MatchAnchors == MatchLoop("anchor", "autolinks", "done")

NextExtract ==
  \/ StripCode
  \/ MatchMarkdownLinks
  \/ MatchAutolinks
  \/ MatchAnchors

\* A call of collectFileLinks on a file with one link.
SpecExtract == InitExtract /\ [][NextExtract]_vars

\* A call of collectFileLinks on a file with code fences.
SpecStrip == InitStrip /\ [][NextExtract]_vars

\* ------------------------------------------------------------ specifications

\* A run of the whole program over the corpora.
Next ==
  \/ CheckDir
  \/ ScanFile
  \/ StartPool
  \/ \E w \in 1..Len(workers) : FetchResolves(w, PoolStatuses)
  \/ \E w \in 1..Len(workers) : FetchRejects(w, Thrown)
  \/ \E w \in 1..Len(workers) : TimerFires(w)
  \/ \E w \in 1..Len(workers) : ResumeCheckUrl(w)
  \/ \E w \in 1..Len(workers) : ResumeCallback(w)
  \/ \E w \in 1..Len(workers) : ResumeLoop(w)
  \/ PoolSettles

Spec == Init /\ [][Next]_vars

\* The runs of the whole program in which the event loop keeps running: a continuation
\* that is ready is run, and a pending request settles in the end (at the
\* latest its timer fires, line 173).
SpecLive == InitLive /\ [][Next]_vars /\ WF_vars(Next)

\* A run over a single link, with every status a server can answer.
NextCheck ==
  \/ CheckDir
  \/ ScanFile
  \/ StartPool
  \/ \E w \in 1..Len(workers) : FetchResolves(w, AllStatuses)
  \/ \E w \in 1..Len(workers) : FetchRejects(w, Thrown)
  \/ \E w \in 1..Len(workers) : TimerFires(w)
  \/ \E w \in 1..Len(workers) : ResumeCheckUrl(w)
  \/ \E w \in 1..Len(workers) : ResumeCallback(w)
  \/ \E w \in 1..Len(workers) : ResumeLoop(w)
  \/ PoolSettles

SpecCheck == InitCheck /\ [][NextCheck]_vars

\* A run over the scanned corpora, on a network where every server
\* answers.
NextScan ==
  \/ CheckDir
  \/ ScanFile
  \/ StartPool
  \/ \E w \in 1..Len(workers) : FetchResolves(w, ScanStatuses)
  \/ \E w \in 1..Len(workers) : ResumeCheckUrl(w)
  \/ \E w \in 1..Len(workers) : ResumeCallback(w)
  \/ \E w \in 1..Len(workers) : ResumeLoop(w)
  \/ PoolSettles

SpecScan == InitScan /\ [][NextScan]_vars

\* ------------------------------------------------------------ properties

\* The workers whose check has started and has not returned its verdict.
InFlight(ws) == { w \in 1..Len(ws) : ws[w].pc \in {"fetch", "check"} }

\* The URLs of the list, as a set.
Items == { uniqueUrls[i] : i \in 1..Len(uniqueUrls) }

\* Every URL of the list has its verdict, the cursor is at the end and no
\* check is in flight.
AllChecked ==
  /\ \A u \in Items : verdict[u] # NoResult
  /\ index = Len(uniqueUrls)
  /\ InFlight(workers) = {}

\* main has printed its report and called process.exit after the pool.
Reported == mainPc = "exited" /\ dirExists

\* C1: runWithConcurrency hands each item of the list to the callback
\* exactly once: the indices handed out so far are 0, 1, ... up to the
\* cursor, each once and none past the end of the list, no two workers
\* hold the same item, and when the pool has resolved every index has been
\* handed out.
EachItemHandedOnce ==
  /\ Len(handed) = index
  /\ \A i \in 1..Len(handed) : handed[i] = i - 1 /\ handed[i] < Len(uniqueUrls)
  /\ \A v, w \in 1..Len(workers) :
       (v # w /\ workers[v].item # 0) => workers[v].item # workers[w].item
  /\ Reported => Len(handed) = Len(uniqueUrls)

\* C1, witness: the pool has resolved over a list longer than the number
\* of workers, every item handed out.
HandedOutByFewerWorkers ==
  /\ Reported
  /\ limit = SmallLimit
  /\ Len(uniqueUrls) > SmallLimit
  /\ Len(handed) = Len(uniqueUrls)

\* C2: the number of checks in flight is at most the limit the pool was
\* given, which is at most MAX_CONCURRENCY (15, the limit main passes), and
\* at most the number of unique URLs.
InFlightBounded ==
  /\ limit <= MAX_CONCURRENCY
  /\ Cardinality(InFlight(workers)) <= limit
  /\ Cardinality(InFlight(workers)) <= MAX_CONCURRENCY
  /\ Cardinality(InFlight(workers)) <= Len(uniqueUrls)

\* C2, witness: the limit binds: as many checks in flight as the limit
\* allows while URLs are still unclaimed.
LimitBinds ==
  /\ Cardinality(InFlight(workers)) = limit
  /\ index < Len(uniqueUrls)

\* C3: main sorts, prints and exits only after every unique URL has its
\* verdict: once main is past the pool, no URL is unclaimed or in flight.
ExitOnlyAfterAllChecked ==
  (mainPc \in {"exited", "crashed"} \/ summary # NoSummary \/ report # <<>>)
    => AllChecked

\* C3, witness: main has exited with failures after checking a full list.
ExitedAfterFullList ==
  /\ Reported
  /\ Len(uniqueUrls) = MaxUrls
  /\ exitCode = 1
  /\ summary.unique = MaxUrls

\* C4: checkUrl never raises: whatever the requests did, the check
\* completes with a CheckResult; no worker rejects, main does not die of a
\* rejected pool, and when main has exited every URL has been checked.
CheckUrlNeverRaises ==
  /\ \A w \in 1..Len(workers) :
       /\ workers[w].result # Raised
       /\ workers[w].pc # "rejected"
       /\ workers[w].pc = "callback" =>
            /\ workers[w].result # NoResult
            /\ workers[w].result.ok => workers[w].result.reason = Undefined
  /\ \A u \in Urls : verdict[u] # Raised
  /\ mainPc # "crashed"
  /\ Reported => AllChecked

\* C4, witness: a request threw a value that is not an Error, another
\* threw an Error, the run went on and a third URL passed.
ThrownValuesBecameVerdicts ==
  /\ Reported
  /\ \E u \in Items : verdict[u].reason = "unknown error"
  /\ \E u \in Items : verdict[u].reason = "fetch failed"
  /\ \E u \in Items : verdict[u].ok

\* The workers inside a check whose verdict checkUrl has just returned.
Returned == { w \in 1..Len(workers) : workers[w].pc = "callback" }

\* The workers inside a check.
Checking ==
  { w \in 1..Len(workers) : workers[w].pc \in {"fetch", "check", "callback"} }

\* The HEAD request of w's check returned a response with status >= 400.
HeadRefused(w) ==
  workers[w].head.kind = "response" /\ workers[w].head.status >= 400

\* The statuses the claims call passing.
PassingStatuses == (200..399) \cup {403, 429}

\* C5: each URL is requested with one HEAD and then at most one GET and
\* nothing else; a GET is in progress or done only after a HEAD response
\* with status >= 400, and a check that returns after such a HEAD response
\* has issued the GET; a HEAD that threw, timed out or answered below 400
\* is followed by no GET.
HeadThenAtMostOneGet ==
  /\ \A u \in Urls : requests[u] \in {<<>>, <<"HEAD">>, <<"HEAD", "GET">>}
  /\ \A u \in Urls : verdict[u] # NoResult => requests[u] # <<>>
  /\ \A w \in Checking :
       /\ workers[w].method = "GET" => HeadRefused(w)
       /\ requests[workers[w].item]
            = IF workers[w].method = "GET" THEN <<"HEAD", "GET">> ELSE <<"HEAD">>
  /\ \A w \in Returned : HeadRefused(w) <=> workers[w].method = "GET"

\* C5, witness: a check has returned after a HEAD that answered exactly
\* 400 and the GET that followed it.
GetAfterHead400 ==
  \E w \in Returned :
    /\ workers[w].head = Response(400)
    /\ workers[w].method = "GET"
    /\ requests[workers[w].item] = <<"HEAD", "GET">>

\* C6: the verdict on a final response depends on its status only: 404
\* fails with "HTTP 404", 403 and 429 pass, any other status below 200 or
\* from 400 fails with "HTTP " and the status, and every status from 200
\* to 399 passes; the final response is the GET's when a GET was issued,
\* whatever the HEAD's status was.
VerdictFromFinalStatus ==
  \A w \in Returned :
    workers[w].last.kind = "response" =>
      LET status == workers[w].last.status
          result == workers[w].result
      IN /\ status = 404 => result = [ok |-> FALSE, reason |-> "HTTP 404"]
         /\ status \in {403, 429} => result = [ok |-> TRUE, reason |-> Undefined]
         /\ (status \notin {403, 429} /\ (status < 200 \/ status >= 400)) =>
              result = [ok |-> FALSE, reason |-> "HTTP " \o ToString(status)]
         /\ (status >= 200 /\ status < 400) =>
              result = [ok |-> TRUE, reason |-> Undefined]
         /\ verdict[workers[w].item] = result
         /\ workers[w].method = "HEAD" => workers[w].head = workers[w].last

\* C6, witness: a HEAD answered 404, the GET answered 429, and the check
\* passed.
GetOverridesHead ==
  \E w \in Returned :
    /\ workers[w].head = Response(404)
    /\ workers[w].last = Response(429)
    /\ workers[w].result.ok

\* C7, as claimed: a check whose HEAD answered 403 passes, whatever the
\* GET fallback did.
Head403AlwaysPasses ==
  \A w \in Returned : workers[w].head = Response(403) => workers[w].result.ok

\* C7, amended: a HEAD that answers 403 is followed by the GET fallback,
\* and the check passes exactly when the GET answers with a passing status
\* (200 to 399, 403 or 429).
Head403PassesIfGetPasses ==
  \A w \in Returned :
    workers[w].head = Response(403) =>
      /\ workers[w].method = "GET"
      /\ workers[w].result.ok
           <=> /\ workers[w].last.kind = "response"
               /\ workers[w].last.status \in PassingStatuses

\* C7, witness: HEAD and GET both answered 403 and the check passed.
Head403Get403Passed ==
  \E w \in Returned :
    /\ workers[w].head = Response(403)
    /\ workers[w].last = Response(403)
    /\ workers[w].method = "GET"
    /\ workers[w].result.ok

\* C8: a request whose timer fires while it is pending is aborted, and the
\* check returns fail with reason "timeout", for the HEAD and for the GET
\* fallback; such a check is never classified passed.
TimeoutFails ==
  \A w \in Checking :
    workers[w].timer = "fired" =>
      /\ workers[w].pc \in {"check", "callback"}
      /\ workers[w].last = AbortError
      /\ workers[w].pc = "callback" =>
           /\ workers[w].result = [ok |-> FALSE, reason |-> "timeout"]
           /\ verdict[workers[w].item] = [ok |-> FALSE, reason |-> "timeout"]

\* C8, witness: the GET fallback timed out and the check returned.
GetTimedOut ==
  \E w \in Returned :
    /\ workers[w].timer = "fired"
    /\ workers[w].method = "GET"
    /\ workers[w].result.reason = "timeout"

\* C9: a timer that fires aborts its own request only: in the step, every
\* other worker, the cursor, the failure list, the verdicts and main are
\* unchanged, and the aborted request settles with the AbortError; and the
\* run still checks every URL before main exits.
TimerAbortsOwnRequestOnly ==
  /\ [][\A w \in 1..Len(workers) :
          (workers[w].timer = "armed" /\ workers'[w].timer = "fired") =>
            /\ \A v \in 1..Len(workers) : v # w => workers'[v] = workers[v]
            /\ workers'[w].last = AbortError
            /\ workers'[w].item = workers[w].item
            /\ index' = index
            /\ failed' = failed
            /\ verdict' = verdict
            /\ mainPc' = mainPc]_vars
  /\ [](Reported => AllChecked)

\* C9, witness: a timer has fired and its check has returned "timeout"
\* while another check is still in flight and URLs are still unclaimed.
TimeoutBesideOtherChecks ==
  /\ \E w, v \in 1..Len(workers) :
       /\ workers[w].timer = "fired"
       /\ workers[v].pc = "fetch"
  /\ \E u \in Items : verdict[u].reason = "timeout"
  /\ index < Len(uniqueUrls)

\* C10: when the pool has resolved, the failure list holds exactly one
\* record for each URL whose check returned ok = false and none for the
\* others, each with the reason of that URL's check and that URL's own
\* occurrence list; at no time does the list hold two records of a URL or
\* a record of a URL whose check has not failed.
FailuresMatchVerdicts ==
  /\ \A k \in 1..Len(failed) :
       /\ failed[k].url \in Items
       /\ verdict[failed[k].url] # NoResult
       /\ ~verdict[failed[k].url].ok
       /\ failed[k].reason = verdict[failed[k].url].reason
       /\ failed[k].occurrences = MapGet(occurrencesByUrl, failed[k].url)
       /\ failed[k].occurrences # <<>>
       /\ \A j \in 1..Len(failed) : failed[j].url = failed[k].url => j = k
  /\ Reported =>
       \A u \in Items :
         ~verdict[u].ok => \E k \in 1..Len(failed) : failed[k].url = u

\* C10, witness: the pool has resolved with two failed URLs, one of them
\* with two occurrences, and a passed one.
TwoFailuresOnePass ==
  /\ Reported
  /\ Len(failed) = 2
  /\ \E k \in 1..Len(failed) : Len(failed[k].occurrences) = 2
  /\ \E u \in Items : verdict[u].ok

\* The failures among the URLs 1..u in ascending URL order, as the
\* verdicts and the occurrence map alone determine them.
RECURSIVE FailuresUpTo(_)
FailuresUpTo(u) ==
  IF u = 0
  THEN <<>>
  ELSE IF u \in Items /\ ~verdict[u].ok
  THEN Append(FailuresUpTo(u - 1),
              FailedResult(u, verdict[u], occurrencesByUrl))
  ELSE FailuresUpTo(u - 1)

\* C11: the failure report is in ascending URL order whatever order the
\* checks completed in: the reported sequence is a function of the
\* verdicts and the occurrence map, the same for every order in which the
\* failures were pushed, and it holds the pushed URLs, each once.
ReportInUrlOrder ==
  Reported =>
    /\ report = FailuresUpTo(MaxUrls)
    /\ \A i, j \in 1..Len(report) : i < j => report[i].url < report[j].url
    /\ Len(pushed) = Len(report)
    /\ \A k \in 1..Len(pushed) :
         \E i \in 1..Len(report) : report[i].url = pushed[k]

\* C11, witness: every URL of a full list failed, the failures were not
\* pushed in ascending URL order, and the report is printed.
ReportedAfterUnorderedPushes ==
  /\ Reported
  /\ Len(report) = MaxUrls
  /\ \E k \in 1..(Len(pushed) - 1) : pushed[k] > pushed[k + 1]
  /\ \E k \in 1..(Len(pushed) - 1) : pushed[k] < pushed[k + 1]

\* C13: the process exits with code 0 exactly when the content directory
\* exists and no checked URL was classified failed, and with code 1 when
\* the directory is missing or a URL failed; no other code is used, and
\* with the directory missing no file is scanned, no worker is started
\* and no request is issued.
ExitCodeTellsOutcome ==
  /\ exitCode \in {-1, 0, 1}
  /\ exitCode # -1 <=> mainPc \in {"exited", "crashed"}
  /\ mainPc = "exited" =>
       /\ exitCode = 0 <=> (dirExists /\ \A u \in Items : verdict[u].ok)
       /\ exitCode = 1 <=> (~dirExists \/ \E u \in Items : ~verdict[u].ok)
  /\ ~dirExists =>
       /\ mainPc \in {"start", "exited"}
       /\ scannedFiles = 0
       /\ occurrencesByUrl = <<>>
       /\ workers = <<>>
       /\ \A u \in Urls : requests[u] = <<>> /\ verdict[u] = NoResult
       /\ summary = NoSummary

\* C13, witness: a run over a full list whose URLs all passed has exited
\* with code 0.
ExitedZeroAfterFullList ==
  /\ Reported
  /\ exitCode = 0
  /\ Len(uniqueUrls) = MaxUrls
  /\ \A u \in Items : verdict[u].ok /\ requests[u] # <<>>

\* C17: the phases are strictly ordered. No request is issued, no worker
\* exists and no URL has a verdict before every file has been scanned and
\* the list of URLs is the map's keys; and no step taken while the pool
\* runs changes the list of URLs, the map or the scan's counters.
PhasesStrictlyOrdered ==
  /\ [](mainPc \in {"start", "scan"} =>
         /\ workers = <<>>
         /\ \A u \in Urls : requests[u] = <<>> /\ verdict[u] = NoResult)
  /\ []((\E u \in Urls : requests[u] # <<>>) =>
         /\ pendingFiles = <<>>
         /\ uniqueUrls = MapKeys(occurrencesByUrl)
         /\ extractedLinks >= Len(uniqueUrls))
  /\ [][mainPc = "pool" =>
         /\ uniqueUrls' = uniqueUrls
         /\ occurrencesByUrl' = occurrencesByUrl
         /\ scannedFiles' = scannedFiles
         /\ extractedLinks' = extractedLinks
         /\ pendingFiles' = pendingFiles]_vars

\* C17, witness: two files have been scanned, a URL occurs twice, and
\* checks are in flight with URLs still unclaimed.
ChecksRunAfterScan ==
  /\ mainPc = "pool"
  /\ scannedFiles = 2
  /\ \E u \in Items : Len(MapGet(occurrencesByUrl, u)) = 2
  /\ \E w \in 1..Len(workers) : workers[w].pc = "fetch"
  /\ index < Len(uniqueUrls)
  /\ \E u \in Items : verdict[u] # NoResult

\* The links of the first k files in the order main meets them, each with
\* the number of its file.
RECURSIVE LinksMet(_, _)
LinksMet(fs, k) ==
  IF k = 0
  THEN <<>>
  ELSE LinksMet(fs, k - 1)
         \o [i \in 1..Len(fs[k]) |->
              [url |-> fs[k][i].url, file |-> k, line |-> fs[k][i].line]]

\* The places where a run of links links url, in the order of the run.
RECURSIVE PlacesOf(_, _)
PlacesOf(met, url) ==
  IF met = <<>>
  THEN <<>>
  ELSE IF Head(met).url = url
  THEN <<[file |-> Head(met).file, line |-> Head(met).line]>>
         \o PlacesOf(Tail(met), url)
  ELSE PlacesOf(Tail(met), url)

RECURSIVE SumOfLengths(_)
SumOfLengths(map) ==
  IF map = <<>>
  THEN 0
  ELSE Len(Head(map).occurrences) + SumOfLengths(Tail(map))

\* C12: after any number of files the map holds exactly one record per
\* distinct URL extracted so far, the records stand in the order of first
\* encounter, the occurrence list of a URL holds every (file, line) where
\* it was extracted, in the order met, and the lengths of the lists sum to
\* the count of extracted links; the list of URLs to check is the map's
\* keys, so each URL is requested once however often it occurs.
OneRecordPerUrl ==
  LET met == LinksMet(files, scannedFiles)
      map == occurrencesByUrl
  IN /\ \A i, j \in 1..Len(map) : map[i].url = map[j].url => i = j
     /\ { map[i].url : i \in 1..Len(map) } = { met[k].url : k \in 1..Len(met) }
     /\ \A i \in 1..Len(map) :
          /\ map[i].occurrences = PlacesOf(met, map[i].url)
          /\ map[i].occurrences # <<>>
     /\ \A i, j \in 1..Len(map) :
          i < j => \E k \in 1..Len(met) :
                     /\ met[k].url = map[i].url
                     /\ \A h \in 1..k : met[h].url # map[j].url
     /\ extractedLinks = Len(met)
     /\ SumOfLengths(map) = extractedLinks
     /\ mainPc = "pool" => uniqueUrls = MapKeys(map)
     /\ \A u \in Urls : Len(requests[u]) <= 1
     /\ Reported =>
          /\ Len(handed) = Len(map)
          /\ \A i \in 1..Len(map) : requests[map[i].url] = <<"HEAD">>

\* C12, witness: three links in two files, two of them to one URL from
\* different files, have been merged into two records and both URLs have
\* been checked.
RepeatedUrlCheckedOnce ==
  /\ Reported
  /\ extractedLinks = MaxLinks
  /\ Len(occurrencesByUrl) = 2
  /\ \E i \in 1..Len(occurrencesByUrl) :
       LET occurrences == occurrencesByUrl[i].occurrences
       IN /\ Len(occurrences) = 2
          /\ occurrences[1].file # occurrences[2].file
          /\ requests[occurrencesByUrl[i].url] = <<"HEAD">>

\* The workers suspended on a request to url.
Pending(url) ==
  { w \in 1..Len(workers) :
      workers[w].item = url /\ workers[w].pc = "fetch" }

\* C19: each request attempt arms exactly one timer, and the timer is
\* disarmed in the step in which the attempt settles, whether it settles
\* with a response or with a thrown value: a URL has as many setTimeout
\* calls as requests, a timer is armed exactly while its request is
\* pending, so one timer (the GET's, not the HEAD's) is armed while the
\* GET fallback runs and none once main is past the pool; and a timer
\* fires only on a request that has not settled.
OneTimerPerAttempt ==
  /\ [](\A u \in Urls :
         /\ timers[u].set = Len(requests[u])
         /\ timers[u].armed = Cardinality(Pending(u)))
  /\ [](\A w \in 1..Len(workers) :
         /\ workers[w].timer = "armed" <=> workers[w].pc = "fetch"
         /\ (workers[w].pc = "fetch" /\ workers[w].method = "GET") =>
              timers[workers[w].item] = [set |-> 2, armed |-> 1])
  /\ [](mainPc \in {"exited", "crashed"} =>
         \A u \in Urls : timers[u].armed = 0)
  /\ [][\A w \in 1..Len(workers) :
          (workers[w].timer = "armed" /\ workers'[w].timer = "fired") =>
            /\ workers[w].pc = "fetch"
            /\ workers[w].last = NoOutcome
            /\ timers'[workers[w].item].armed = 0]_vars

\* C19, witness: the run has exited after a check whose HEAD and GET both
\* got a response, a check whose request threw, and a check whose timer
\* fired; four timers were set and none is armed.
TimersAllDisarmed ==
  /\ Reported
  /\ \E u \in Items : timers[u] = [set |-> 2, armed |-> 0] /\ verdict[u].reason = "HTTP 404"
  /\ \E u \in Items : timers[u] = [set |-> 1, armed |-> 0] /\ verdict[u].reason = "fetch failed"
  /\ \E u \in Items : timers[u] = [set |-> 1, armed |-> 0] /\ verdict[u].reason = "timeout"

\* No file of the corpus holds a link.
NoLinks == \A f \in 1..Len(files) : files[f] = <<>>

\* C18: when every request settles in the end, every run exits: all
\* workers have finished, the pool has resolved and main has called
\* process.exit, whatever the checks returned; and over an empty list of
\* URLs no worker is started, no request is issued and the run exits with
\* code 0.
EveryRunExits ==
  /\ <>(/\ mainPc = "exited"
        /\ dirExists =>
             /\ AllChecked
             /\ \A w \in 1..Len(workers) : workers[w].pc = "done"
             /\ summary # NoSummary)
  /\ [](NoLinks =>
         /\ workers = <<>>
         /\ \A u \in Urls : requests[u] = <<>> /\ timers[u] = NoTimers)
  /\ (NoLinks /\ dirExists) ~> (mainPc = "exited" /\ exitCode = 0)

\* C18, witness: a run has exited after a passed check and a check
\* that timed out, with fewer workers than URLs, all finished.
ExitedAfterMixedChecks ==
  /\ Reported
  /\ Len(workers) < Len(uniqueUrls)
  /\ \A w \in 1..Len(workers) : workers[w].pc = "done"
  /\ \E u \in Items : verdict[u].ok
  /\ \E u \in Items : verdict[u].reason = "timeout"

\* The number of backticks of t.
RECURSIVE Backticks(_)
Backticks(t) ==
  IF t = <<>>
  THEN 0
  ELSE (IF Head(t) = Backtick THEN 1 ELSE 0) + Backticks(Tail(t))

\* In a file made of StripParts, place p lies inside a fenced code block:
\* an odd number of fences stand before it and a fence stands after it.
InsideCodeBlock(t, p) ==
  /\ (Backticks(SubSeq(t, 1, p - 1)) \div 3) % 2 = 1
  /\ Backticks(SubSeq(t, p, Len(t))) >= 3

\* The links of a file made of StripParts that stand outside the fenced
\* code blocks, from place p on, each with its line in the file as it
\* was read.
RECURSIVE LinksOutsideCodeBlocks(_, _)
LinksOutsideCodeBlocks(t, p) ==
  IF p > Len(t)
  THEN <<>>
  ELSE IF t[p] = "[" /\ ~InsideCodeBlock(t, p)
  THEN <<[url |-> <<"https:", "//", "x.com", "/page">>,
          line |-> Newlines(SubSeq(t, 1, p - 1)) + 1]>>
         \o LinksOutsideCodeBlocks(t, p + 1)
  ELSE LinksOutsideCodeBlocks(t, p + 1)

\* C14: stripCodeBlocks yields a text with as many newline characters as
\* the file has, and collectFileLinks returns exactly the links that stand
\* outside the fenced code blocks (between an opening fence of three
\* backticks and its closing fence), each with the line it has in the
\* file: no link inside a block is extracted, and a link after a block
\* keeps its line number.
CodeBlocksBlankedLineByLine ==
  /\ textPc \in {"stripped", "links", "autolinks", "done"} =>
       Newlines(content) = Newlines(rawContent)
  /\ textPc = "done" => fileLinks = LinksOutsideCodeBlocks(rawContent, 1)

\* C14, witness: a file has a link inside a code block that spans a line
\* break and a link on the third line, after the block; only the second
\* is returned, with line 3.
LinkAfterCodeBlockOnLineThree ==
  /\ textPc = "done"
  /\ \E p \in 1..Len(rawContent) :
       rawContent[p] = "[" /\ InsideCodeBlock(rawContent, p)
  /\ Len(content) < Len(rawContent)
  /\ Len(fileLinks) = 1
  /\ fileLinks[1].line = 3

\* The file writes its URL as the target of an image.
ImageSyntaxes == {"image", "imageAngle", "imageInLink"}

\* C15: the target of a markdown image is never extracted by any of the
\* three loops, whether the image stands alone, has its target in angle
\* brackets or is the text of a link: a link returned for such a file can
\* only be the link around the image.
ImageTargetNeverExtracted ==
  syntax \in ImageSyntaxes =>
    \A k \in 1..Len(fileLinks) : fileLinks[k].url = OuterUrl

\* The URL a file is written with is one the checker is meant for: its
\* scheme is http or https in any case, it has a host that is not
\* localhost in any case, with a port or not, and the last segment of its
\* path has no image extension (a segment that is only ".png" has none).
Checkable(u) ==
  /\ u.scheme \in {"http:", "https:", "HTTPS:"}
  /\ u.host # <<>>
  /\ u.host[1] \notin {"localhost", "LOCALHOST"}
  /\ u.path \notin {<<"/page", ".png">>, <<"/page", ".PNG">>}

\* The URL string of a checkable URL: scheme and host in lower case, and
\* "/" for an empty path.
Canonical(u) ==
  <<IF u.scheme = "HTTPS:" THEN "https:" ELSE u.scheme, "//">> \o u.host
    \o (IF u.path = <<>> THEN <<"/">> ELSE u.path) \o u.query \o u.hash

\* C16: every URL collectFileLinks returns, and so every URL that reaches
\* the checker, has scheme http or https and a host other than localhost,
\* and is the URL string of a checkable URL of the file: a relative link,
\* a mail link, another scheme, a target that does not parse, a localhost
\* link and a link to an image, with a query string and a fragment or
\* without, are returned in none of the syntaxes.
OnlyCheckableUrlsReturned ==
  \A k \in 1..Len(fileLinks) :
    LET url == fileLinks[k].url
    IN /\ url[1] \in {"http:", "https:"}
       /\ url[2] = "//"
       /\ url[3] \in HostTokens \ {"localhost", "LOCALHOST"}
       /\ \/ url = OuterUrl
          \/ Checkable(target) /\ url = Canonical(target)

\* C16, witness: a link with a title to a page with a capital scheme, a
\* query string and a fragment that both end in .png has been returned
\* with its URL string.
PageWithImageNamedInQueryReturned ==
  /\ textPc = "done"
  /\ syntax = "linkTitle"
  /\ target.scheme = "HTTPS:"
  /\ target.path = <<"/page", ".html">>
  /\ target.query # <<>>
  /\ target.hash # <<>>
  /\ fileLinks = <<[url |-> Canonical(target), line |-> 1]>>

====
